---- MODULE Spec2Model ----
(***************************************************************************)
(* Model of app.py: the Streamlit short-script generator.                  *)
(*                                                                         *)
(* A text (a Python str) is a sequence of pieces.  A piece is one          *)
(* character typed by the user or returned by the remote service (" ",     *)
(* ",", "\n", "a", ...), or one literal fragment of the source (a string   *)
(* constant or the constant part of an f-string).  No literal fragment of  *)
(* app.py used here contains a line break or a comma, and none begins or   *)
(* ends the text with white space, so line structure, splitting and        *)
(* stripping are computed piece by piece exactly as Python computes them   *)
(* character by character.  The two non-ASCII characters of the source     *)
(* literals (the dash and the apostrophe) are written "--" and "'".        *)
(***************************************************************************)
EXTENDS Integers, Sequences, FiniteSets, TLC

VARIABLES
    api_key,                  \* line 43: sidebar text input
    genre,                    \* line 44
    tone,                     \* line 45
    platform,                 \* line 46
    length,                   \* line 47
    hook_strength,            \* line 48
    add_characters,           \* line 49
    character_names,          \* line 50
    include_call_to_action,   \* line 51
    title,                    \* line 62
    prompts_extra,            \* line 63
    submitted,                \* line 64
    pc,                       \* position of the running script
    response,                 \* what the remote service did in this run
    result_text,              \* lines 137, 141
    calls,                    \* the calls made by this script run, in order
    preview,                  \* line 144: the text area's value
    download                  \* line 145: the download button's data

widgets == <<api_key, genre, tone, platform, length, hook_strength,
             add_characters, character_names, include_call_to_action>>
form == <<title, prompts_extra>>
run == <<submitted, pc, response, result_text, calls, preview, download>>
vars == <<widgets, form, run>>

-----------------------------------------------------------------------------
(* Python values and string methods *)

None == [tag |-> "None"]
Str(t) == [tag |-> "str", val |-> t]

\* Python truthiness of an Optional[str]: None and "" are falsy.
Truthy(v) == v.tag = "str" /\ v.val # <<>>

IsSpace(c) == c \in {" ", "\n", "\t"}

Min(S) == CHOOSE m \in S : \A k \in S : m <= k
Max(S) == CHOOSE m \in S : \A k \in S : m >= k

Count(seq, x) == Cardinality({i \in 1..Len(seq) : seq[i] = x})

RECURSIVE lstrip(_)
lstrip(s) == IF s # <<>> /\ IsSpace(Head(s)) THEN lstrip(Tail(s)) ELSE s

RECURSIVE rstrip(_)
rstrip(s) ==
    IF s # <<>> /\ IsSpace(s[Len(s)]) THEN rstrip(SubSeq(s, 1, Len(s) - 1)) ELSE s

\* str.strip()
strip(s) == rstrip(lstrip(s))

\* str.split(sep) for a one-character separator: "" splits to [""].
RECURSIVE split(_, _)
split(s, sep) ==
    LET hits == {i \in 1..Len(s) : s[i] = sep}
    IN  IF hits = {} THEN <<s>>
        ELSE LET i == Min(hits)
             IN  <<SubSeq(s, 1, i - 1)>> \o split(SubSeq(s, i + 1, Len(s)), sep)

\* a bug: every item followed by the separator, the last one too
RECURSIVE join_terminated(_, _)
join_terminated(sep, items) ==
    IF items = <<>> THEN <<>> ELSE items[1] \o sep \o join_terminated(sep, Tail(items))

\* sep.join(items)
RECURSIVE join(_, _)
join(sep, items) ==
    IF items = <<>> THEN <<>>
    ELSE IF Len(items) = 1 THEN items[1]
    ELSE items[1] \o sep \o join(sep, Tail(items))

Digit == <<"0", "1", "2", "3", "4", "5", "6", "7", "8", "9">>

\* the decimal rendering of a natural number inside an f-string
RECURSIVE str(_)
str(n) == IF n < 10 THEN <<Digit[n + 1]>> ELSE str(n \div 10) \o <<Digit[(n % 10) + 1]>>

RECURSIVE Flatten(_)
Flatten(ss) == IF ss = <<>> THEN <<>> ELSE Head(ss) \o Flatten(Tail(ss))

-----------------------------------------------------------------------------
(* fallback_generate, lines 69-96 *)

hook_map ==
    [Mild |-> "What if I told you...?",
     Standard |-> "Listen -- this changed my whole year."]
    @@ ("All-in" :> "Pay attention -- this could change your day.")

hook_default == "Here's something to think about:"

\* a bug: a value outside the table takes the Standard hook
hook_get_standard(hs) == IF hs \in DOMAIN hook_map THEN hook_map[hs] ELSE hook_map["Standard"]

\* hook_map.get(hook_strength, default), line 71
hook_get(hs) == IF hs \in DOMAIN hook_map THEN hook_map[hs] ELSE hook_default

tone_words ==
    [Warm |-> <<"warmly">>, Funny |-> <<"jokingly">>, Sarcastic |-> <<"dryly">>,
     Serious |-> <<"firmly">>, Emotional |-> <<"softly">>,
     Businesslike |-> <<"strategically">>, Playful |-> <<"playfully">>]

\* a bug: a tone outside the table takes the first entry of the table
twords_get_first(t) == IF t \in DOMAIN tone_words THEN tone_words[t] ELSE <<"warmly">>

\* tone_words.get(tone, ['sincerely']), line 74
twords_get(t) == IF t \in DOMAIN tone_words THEN tone_words[t] ELSE <<"sincerely">>

\* a bug: the filter "if c.strip()" left out
names_of_unfiltered(chars) ==
    LET parts == split(chars, ",")
    IN  [i \in 1..Len(parts) |-> strip(parts[i])]

\* line 78: [c.strip() for c in chars.split(',') if c.strip()]
names_of(chars) ==
    LET parts == split(chars, ",")
        stripped == [i \in 1..Len(parts) |-> strip(parts[i])]
    IN  SelectSeq(stripped, LAMBDA c : c # <<>>)

\* a bug (or another layout): the descriptors joined by line breaks, with no
\* line break after the last
char_section_of_joined(chars) ==
    IF chars = <<>> THEN <<>>
    ELSE LET names == names_of_unfiltered(chars)
             kept == SelectSeq(names, LAMBDA c : c # <<>>)
         IN  join(<<"\n">>, [i \in 1..Len(kept) |-> kept[i] \o <<": (short descriptor)">>])

\* lines 76-80: char_section
char_section_of(chars) ==
    IF chars = <<>> THEN <<>>
    ELSE LET names == names_of(chars)
         IN  Flatten([i \in 1..Len(names) |->
                        names[i] \o <<": (short descriptor)", "\n">>])

\* a bug: the quotient rounded up
approx_lines_ceil(len) == Max({3, (len + 7) \div 8})

\* line 90: max(3, int(length / 8)); length / 8 is exact enough in floating
\* point for every length the slider offers, so int() is the floor
approx_lines_of(len) == Max({3, len \div 8})

\* line 92, for loop index i (from 0)
body_line(i, adverb) ==
    str(i + 1) \o <<". This is a meaningful short script line written ", adverb, ".">>

\* a bug: the two endings exchanged
cta_line_swapped(pf) ==
    <<"END: " \o (IF pf = "Podcast Intro" THEN "Subscribe for more"
                                        ELSE "Follow our podcast")>>

\* line 95
cta_line(pf) ==
    <<"END: " \o (IF pf # "Podcast Intro" THEN "Subscribe for more"
                                        ELSE "Follow our podcast")>>

\* line 83
topic_line(ti, ge, to, pf) ==
    <<"Topic: ">> \o ti \o <<" -- ", ge, " | Tone: ", to, " | Platform: ", pf>>

\* line 85
notes_line(notes) == <<"Notes: ">> \o notes

\* lines 82-95: the list called lines.  char_section is a local variable of
\* the function: it is bound to its value once, where line 76-80 assign it
\* (as lines is in fallback_generate below).
lines_of(ti, ge, to, pf, len, hs, chars, notes, cta) ==
    LET hook == hook_get(hs)
        twords == twords_get(to)
        approx_lines == approx_lines_of(len)
    IN  CHOOSE lines \in
          { <<<<hook>>, topic_line(ti, ge, to, pf)>>
            \o (IF notes # <<>> THEN <<notes_line(notes)>> ELSE <<>>)
            \o (IF char_section # <<>> THEN <<<<"Characters:">>, char_section>> ELSE <<>>)
            \o [k \in 1..approx_lines |-> body_line(k - 1, twords[1])]
            \o (IF cta THEN <<cta_line(pf)>> ELSE <<>>)
            : char_section \in {char_section_of(chars)} } : TRUE

\* line 96
fallback_generate(ti, ge, to, pf, len, hs, chars, notes, cta) ==
    CHOOSE text \in {join(<<"\n", "\n">>, lines) :
                        lines \in {lines_of(ti, ge, to, pf, len, hs, chars, notes, cta)}} :
        TRUE

-----------------------------------------------------------------------------
(* gpt4_generate, lines 101-128 *)

\* What openai.ChatCompletion.create does when it is called: it raises, it
\* returns a message whose content is null, or it returns a content string.
NotCalled == [kind |-> "not_called", content |-> <<>>]
Raises == [kind |-> "raise", content |-> <<>>]
NullContent == [kind |-> "null", content |-> <<>>]
Content(c) == [kind |-> "content", content |-> c]

\* a bug: the content returned without .strip()
gpt4_generate_unstripped(key, resp) ==
    IF key = <<>> THEN None
    ELSE IF resp.kind = "content" THEN Str(resp.content)
    ELSE None

\* lines 102-128.  A null content makes .strip() raise AttributeError inside
\* the try block, which the except clause turns into None like any other
\* exception.
gpt4_generate(key, resp) ==
    IF key = <<>> THEN None
    ELSE IF resp.kind = "content" THEN Str(strip(resp.content))
    ELSE None

-----------------------------------------------------------------------------
(* Input sets *)

\* line 44-48: the options the sidebar offers
GENRES == {"Motivational", "Comedy", "Drama", "Romance", "Horror", "Educational",
           "Religious/Inspirational", "Product Promo", "Explainer"}
TONES == {"Warm", "Funny", "Sarcastic", "Serious", "Emotional", "Businesslike",
          "Playful"}
PLATFORMS == {"YouTube Short", "TikTok", "Instagram Reel", "Facebook", "Podcast Intro"}
HOOKS == {"Mild", "Standard", "All-in"}
MinLength == 15
MaxLength == 180
LengthStep == 5
LENGTHS == {n \in MinLength..MaxLength : (n - MinLength) % LengthStep = 0}

\* the widgets' default values
DefaultTitle == <<"A quick motivational boost for entrepreneurs">>
DefaultNotes == <<"Use emotional hook, short punchlines, mention hustle and faith.">>
DefaultCharacters == <<"Hero", ",", " ", "Sidekick">>

\* the content strings the remote service returns in the model
Contents == {<<>>, <<" ">>, <<" ", "\n">>, <<"r">>, <<" ", "r", "\n">>, <<"r", " ", "r">>}
Responses == {Raises, NullContent} \cup {Content(c) : c \in Contents}

\* what the user of the app enters or selects in the model
AppKeys == {<<>>, <<"k">>}
AppGenres == {"Motivational", "Explainer"}
AppTones == {"Warm", "Sarcastic"}
AppPlatforms == {"YouTube Short", "Podcast Intro"}
AppLengths == {45, 80}
AppHooks == {"All-in", "Mild"}
AppCharacters == {DefaultCharacters, <<" ", ",">>}
AppTitles == {DefaultTitle, <<" ", "t">>}
AppNotes == {DefaultNotes, <<>>}

-----------------------------------------------------------------------------
(* The app: one script run per user interaction *)

Init ==
    /\ api_key = <<>>
    /\ genre = "Motivational"
    /\ tone = "Warm"
    /\ platform = "YouTube Short"
    /\ length = 45
    /\ hook_strength = "All-in"
    /\ add_characters = FALSE
    /\ character_names = <<>>
    /\ include_call_to_action = TRUE
    /\ title = DefaultTitle
    /\ prompts_extra = DefaultNotes
    /\ submitted = FALSE
    /\ pc = "done"
    /\ response = NotCalled
    /\ result_text = None
    /\ calls = <<>>
    /\ preview = None
    /\ download = None

\* A script run with submitted = False: lines 148-149, the hint is shown and
\* nothing is generated.
Rerun ==
    /\ pc = "done"
    /\ submitted' = FALSE
    /\ pc' = "done"
    /\ response' = NotCalled
    /\ result_text' = None
    /\ calls' = <<>>
    /\ preview' = None
    /\ download' = None
    /\ UNCHANGED form

SetApiKey ==
    /\ \E k \in AppKeys : api_key' = k
    /\ Rerun
    /\ UNCHANGED <<genre, tone, platform, length, hook_strength, add_characters,
                   character_names, include_call_to_action>>

SetGenre ==
    /\ \E g \in AppGenres : genre' = g
    /\ Rerun
    /\ UNCHANGED <<api_key, tone, platform, length, hook_strength, add_characters,
                   character_names, include_call_to_action>>

SetTone ==
    /\ \E t \in AppTones : tone' = t
    /\ Rerun
    /\ UNCHANGED <<api_key, genre, platform, length, hook_strength, add_characters,
                   character_names, include_call_to_action>>

SetPlatform ==
    /\ \E p \in AppPlatforms : platform' = p
    /\ Rerun
    /\ UNCHANGED <<api_key, genre, tone, length, hook_strength, add_characters,
                   character_names, include_call_to_action>>

SetLength ==
    /\ \E n \in AppLengths : length' = n
    /\ Rerun
    /\ UNCHANGED <<api_key, genre, tone, platform, hook_strength, add_characters,
                   character_names, include_call_to_action>>

SetHookStrength ==
    /\ \E h \in AppHooks : hook_strength' = h
    /\ Rerun
    /\ UNCHANGED <<api_key, genre, tone, platform, length, add_characters,
                   character_names, include_call_to_action>>

\* lines 49-50: the text input exists only while the box is ticked
ToggleAddCharacters ==
    /\ add_characters' = ~add_characters
    /\ character_names' = IF add_characters' THEN DefaultCharacters ELSE <<>>
    /\ Rerun
    /\ UNCHANGED <<api_key, genre, tone, platform, length, hook_strength,
                   include_call_to_action>>

SetCharacterNames ==
    /\ add_characters
    /\ \E c \in AppCharacters : character_names' = c
    /\ Rerun
    /\ UNCHANGED <<api_key, genre, tone, platform, length, hook_strength,
                   add_characters, include_call_to_action>>

ToggleCta ==
    /\ include_call_to_action' = ~include_call_to_action
    /\ Rerun
    /\ UNCHANGED <<api_key, genre, tone, platform, length, hook_strength,
                   add_characters, character_names>>

\* lines 61-64 and 133-135: the form is submitted with its two fields
Submit ==
    /\ pc = "done"
    /\ \E t \in AppTitles : title' = t
    /\ \E n \in AppNotes : prompts_extra' = n
    /\ submitted' = TRUE
    /\ pc' = "gpt4_generate"
    /\ response' = NotCalled
    /\ result_text' = None
    /\ calls' = <<>>
    /\ preview' = None
    /\ download' = None
    /\ UNCHANGED widgets

\* line 137
Call_gpt4_generate ==
    /\ pc = "gpt4_generate"
    /\ \E r \in Responses :
         /\ response' = IF api_key = <<>> THEN NotCalled ELSE r
         /\ result_text' = gpt4_generate(api_key, r)
    /\ calls' = calls \o <<"gpt4_generate">>
                  \o (IF api_key = <<>> THEN <<>> ELSE <<"ChatCompletion.create">>)
    /\ pc' = "check"
    /\ UNCHANGED <<widgets, form, submitted, preview, download>>

\* a bug: one more remote attempt before falling back
UseFallback_retry ==
    /\ pc = "check"
    /\ IF ~Truthy(result_text) /\ Count(calls, "gpt4_generate") < 2
       THEN /\ pc' = "gpt4_generate"
            /\ UNCHANGED <<result_text, calls>>
       ELSE /\ pc' = "display"
            /\ IF ~Truthy(result_text)
               THEN /\ result_text' =
                         Str(fallback_generate(title, genre, tone, platform, length,
                                               hook_strength, character_names,
                                               prompts_extra, include_call_to_action))
                    /\ calls' = calls \o <<"fallback_generate">>
               ELSE UNCHANGED <<result_text, calls>>
    /\ UNCHANGED <<widgets, form, submitted, response, preview, download>>

\* lines 139-141
UseFallback ==
    /\ pc = "check"
    /\ IF ~Truthy(result_text)
       THEN /\ result_text' =
                 Str(fallback_generate(title, genre, tone, platform, length,
                                       hook_strength, character_names,
                                       prompts_extra, include_call_to_action))
            /\ calls' = calls \o <<"fallback_generate">>
       ELSE UNCHANGED <<result_text, calls>>
    /\ pc' = "display"
    /\ UNCHANGED <<widgets, form, submitted, response, preview, download>>

\* lines 143-145
Display ==
    /\ pc = "display"
    /\ preview' = result_text
    /\ download' = result_text
    /\ pc' = "done"
    /\ UNCHANGED <<widgets, form, submitted, response, result_text, calls>>

Next ==
    \/ SetApiKey
    \/ SetGenre
    \/ SetTone
    \/ SetPlatform
    \/ SetLength
    \/ SetHookStrength
    \/ ToggleAddCharacters
    \/ SetCharacterNames
    \/ ToggleCta
    \/ Submit
    \/ Call_gpt4_generate
    \/ UseFallback
    \/ Display

Spec == Init /\ [][Next]_vars

\* The interpreter runs the script to its end, and the remote call returns or
\* raises.
RunStep == Call_gpt4_generate \/ UseFallback \/ Display

FairSpec == Spec /\ WF_vars(RunStep)

-----------------------------------------------------------------------------
(* fallback_generate called directly, on arguments the sidebar cannot produce
   as well as on those it can *)

\* arguments outside the lookup tables
UnknownTone == "Gloomy"
UnknownHook == "Extreme"

\* the largest number of comma-separated entries of a characters argument
MaxEntries == 2
EntryTexts == {<<>>, <<" ">>, <<"a">>, <<" ", "b", " ">>, <<"a", " ", "b">>}

RECURSIVE CommaSeparated(_)
CommaSeparated(es) ==
    IF Len(es) = 1 THEN es[1] ELSE es[1] \o <<",">> \o CommaSeparated(Tail(es))

CharacterInputs ==
    {<<>>} \cup {CommaSeparated(es) : es \in UNION {[1..k -> EntryTexts] : k \in 1..MaxEntries}}

NotesTexts == {<<>>, <<" ">>, <<"n">>, <<" ", "n", " ">>, <<"\n">>, <<"n", "\n", "n">>}
TitleTexts == {<<"t">>, <<" ", "t", " ">>}

ComposeInit(Ti, Ge, To, Pf, Le, Hs, Ch, No, Ct) ==
    /\ title \in Ti
    /\ genre \in Ge
    /\ tone \in To
    /\ platform \in Pf
    /\ length \in Le
    /\ hook_strength \in Hs
    /\ character_names \in Ch
    /\ prompts_extra \in No
    /\ include_call_to_action \in Ct
    /\ api_key = <<>>
    /\ add_characters = TRUE
    /\ submitted = FALSE
    /\ pc = "call"
    /\ response = NotCalled
    /\ result_text = None
    /\ calls = <<>>
    /\ preview = None
    /\ download = None

Compose ==
    /\ pc = "call"
    /\ result_text' = Str(fallback_generate(title, genre, tone, platform, length,
                                            hook_strength, character_names,
                                            prompts_extra, include_call_to_action))
    /\ calls' = <<"fallback_generate">>
    /\ pc' = "returned"
    /\ UNCHANGED <<widgets, form, submitted, response, preview, download>>

\* every tone, hook strength and platform, in and out of the tables
SpecEnums ==
    /\ ComposeInit(TitleTexts, {"Motivational", "Product Promo"},
                   TONES \cup {UnknownTone}, PLATFORMS, {15, 45},
                   HOOKS \cup {UnknownHook}, {<<>>, <<"a">>}, {<<>>, <<"n">>}, BOOLEAN)
    /\ [][Compose]_vars

\* every length of the slider, and some lengths between its steps
SpecLength ==
    /\ ComposeInit({<<"t">>}, {"Comedy"}, {"Warm", UnknownTone},
                   {"TikTok", "Podcast Intro"}, LENGTHS \cup {16, 23, 24},
                   {"Mild"}, {<<>>, <<"a", ",", "b">>}, {<<>>, <<"n">>}, BOOLEAN)
    /\ [][Compose]_vars

\* the free-text arguments
SpecText ==
    /\ ComposeInit(TitleTexts, {"Drama"}, {"Funny"}, {"Facebook", "Podcast Intro"},
                   {15}, {"Standard", UnknownHook}, CharacterInputs, NotesTexts,
                   BOOLEAN)
    /\ [][Compose]_vars

-----------------------------------------------------------------------------
(* Reading the returned text *)

Returned == pc = "returned"
Out == result_text.val
OutLines == split(Out, "\n")
Last(s) == s[Len(s)]

IsEndLine(l) ==
    l # <<>> /\ l[1] \in {"END: Subscribe for more", "END: Follow our podcast"}

IsDigit(c) == \E i \in 1..10 : Digit[i] = c
DigitValue(c) == (CHOOSE i \in 1..10 : Digit[i] = c) - 1

RECURSIVE ParseNat(_)
ParseNat(ds) ==
    IF Len(ds) = 1 THEN DigitValue(ds[1])
    ELSE 10 * ParseNat(SubSeq(ds, 1, Len(ds) - 1)) + DigitValue(ds[Len(ds)])

\* a numbered body line: digits, the fixed sentence, an adverb, a full stop
IsBodyLine(l) ==
    /\ Len(l) >= 4
    /\ \A i \in 1..(Len(l) - 3) : IsDigit(l[i])
    /\ l[Len(l) - 2] = ". This is a meaningful short script line written "
    /\ l[Len(l)] = "."

BodyLines == SelectSeq(OutLines, IsBodyLine)
BodyNumber(l) == ParseNat(SubSeq(l, 1, Len(l) - 3))
BodyAdverb(l) == l[Len(l) - 1]

-----------------------------------------------------------------------------
(* C2: with include_cta the text ends with the line "END: Follow our podcast"
   for the platform Podcast Intro and with "END: Subscribe for more" for every
   other platform; without include_cta no line of the text starts with
   "END:". *)
C2_EndLine ==
    Returned =>
        /\ (include_call_to_action /\ platform = "Podcast Intro")
              => Last(OutLines) = <<"END: Follow our podcast">>
        /\ (include_call_to_action /\ platform # "Podcast Intro")
              => Last(OutLines) = <<"END: Subscribe for more">>
        /\ ~include_call_to_action
              => \A i \in 1..Len(OutLines) : ~IsEndLine(OutLines[i])

C2_Witness ==
    /\ Returned
    /\ include_call_to_action
    /\ platform = "Podcast Intro"
    /\ character_names # <<>>
    /\ Last(OutLines) = <<"END: Follow our podcast">>

(* C3: the text has exactly max(3, floor(length / 8)) numbered body lines,
   numbered 1..n in order; a length below 24 gives 3 lines, 45 gives 5 and 80
   gives 10. *)
C3_BodyLineCount ==
    Returned =>
        LET n == IF length \div 8 < 3 THEN 3 ELSE length \div 8
        IN  /\ Len(BodyLines) = n
            /\ \A i \in 1..Len(BodyLines) : BodyNumber(BodyLines[i]) = i
            /\ length < 24 => Len(BodyLines) = 3
            /\ length = 45 => Len(BodyLines) = 5
            /\ length = 80 => Len(BodyLines) = 10

C3_Witness ==
    /\ Returned
    /\ length = 180
    /\ Len(BodyLines) = 22
    /\ BodyNumber(BodyLines[22]) = 22

-----------------------------------------------------------------------------
(* The characters argument read as the claims describe it: the entries between
   the commas, trimmed, the blank ones left out *)

Trim(s) ==
    LET ns == {i \in 1..Len(s) : ~IsSpace(s[i])}
    IN  IF ns = {} THEN <<>> ELSE SubSeq(s, Min(ns), Max(ns))

TrimmedEntries(chars) ==
    LET cs == {i \in 1..Len(chars) : chars[i] = ","}
        comma(k) == CHOOSE i \in cs : Cardinality({j \in cs : j < i}) = k - 1
        first(k) == IF k = 1 THEN 1 ELSE comma(k - 1) + 1
        last(k) == IF k = Cardinality(cs) + 1 THEN Len(chars) ELSE comma(k) - 1
    IN  [k \in 1..(Cardinality(cs) + 1) |-> Trim(SubSeq(chars, first(k), last(k)))]

NonBlankNames(chars) == SelectSeq(TrimmedEntries(chars), LAMBDA e : e # <<>>)

IsDescriptorLine(l) == l # <<>> /\ Last(l) = ": (short descriptor)"
IsNotesLine(l) == l # <<>> /\ l[1] = "Notes: "

(* C4: the "Characters:" header is in the text if and only if some entry of
   the characters argument is non-blank after trimming; it is then followed by
   one line "<name>: (short descriptor)" per non-blank trimmed name, in the
   order of the argument, and the text has no other descriptor line. *)
C4_CharactersBlock ==
    Returned =>
        LET L == OutLines
            N == NonBlankNames(character_names)
            H == {i \in 1..Len(L) : L[i] = <<"Characters:">>}
            D == {i \in 1..Len(L) : IsDescriptorLine(L[i])}
        IN  /\ (H # {}) <=> (N # <<>>)
            /\ N = <<>> => D = {}
            /\ N # <<>> =>
                 /\ Cardinality(H) = 1
                 /\ LET h == CHOOSE i \in H : TRUE
                    IN  /\ L[h + 1] = <<>>
                        /\ D = (h + 2)..(h + 1 + Len(N))
                        /\ \A k \in 1..Len(N) :
                             L[h + 1 + k] = N[k] \o <<": (short descriptor)">>

C4_Witness ==
    /\ Returned
    /\ character_names = <<" ", "b", " ", ",", "a", " ", "b">>
    /\ \E h \in 1..Len(OutLines) :
         /\ OutLines[h] = <<"Characters:">>
         /\ OutLines[h + 2] = <<"b", ": (short descriptor)">>
         /\ OutLines[h + 3] = <<"a", " ", "b", ": (short descriptor)">>

(* C5: the text has a "Notes:" line if and only if the notes argument is
   non-empty after trimming white space. *)
C5_NotesLineIffNonBlank ==
    Returned =>
        ((\E i \in 1..Len(OutLines) : IsNotesLine(OutLines[i]))
            <=> (Trim(prompts_extra) # <<>>))

(* C6: the first line of the text is the hook that the three-entry table gives
   for hook_strength, and the generic default hook for any other value; it
   depends on no other argument. *)
C6_FirstLineIsHook ==
    Returned =>
        OutLines[1] =
            << CASE hook_strength = "Mild" -> "What if I told you...?"
                 [] hook_strength = "Standard" -> "Listen -- this changed my whole year."
                 [] hook_strength = "All-in" -> "Pay attention -- this could change your day."
                 [] OTHER -> "Here's something to think about:" >>

C6_Witness ==
    /\ Returned
    /\ hook_strength = UnknownHook
    /\ prompts_extra # <<>>
    /\ OutLines[1] = <<"Here's something to think about:">>

(* C7: the text is non-empty and has no leading and no trailing white space:
   it begins with the hook and ends with the last body line or, with
   include_cta, with the END line. *)
C7_NoOuterWhitespace ==
    Returned =>
        /\ Out # <<>>
        /\ ~IsSpace(Out[1])
        /\ ~IsSpace(Last(Out))
        /\ Trim(Out) = Out
        /\ Out[1] \in {hook_map[h] : h \in DOMAIN hook_map} \cup {hook_default}
        /\ IF include_call_to_action
           THEN IsEndLine(<<Last(Out)>>)
           ELSE Len(Out) >= 4 /\ IsBodyLine(SubSeq(Out, Len(Out) - 3, Len(Out)))

C7_Witness ==
    /\ Returned
    /\ ~include_call_to_action
    /\ title = <<" ", "t", " ">>
    /\ prompts_extra = <<"\n">>
    /\ NonBlankNames(character_names) # <<>>
    /\ Last(Out) = "."

(* C8: every numbered body line carries the adverb that the seven-entry table
   gives for the tone, and "sincerely" for a tone outside the table; for such
   a tone the rest of the text is what a tone of the table gives. *)
C8_ToneAdverb ==
    Returned =>
        LET adverb == CASE tone = "Warm" -> "warmly"
                        [] tone = "Funny" -> "jokingly"
                        [] tone = "Sarcastic" -> "dryly"
                        [] tone = "Serious" -> "firmly"
                        [] tone = "Emotional" -> "softly"
                        [] tone = "Businesslike" -> "strategically"
                        [] tone = "Playful" -> "playfully"
                        [] OTHER -> "sincerely"
            B == BodyLines
            asWarm == fallback_generate(title, genre, "Warm", platform, length,
                                        hook_strength, character_names,
                                        prompts_extra, include_call_to_action)
        IN  /\ B # <<>>
            /\ \A i \in 1..Len(B) : BodyAdverb(B[i]) = adverb
            /\ tone \notin TONES =>
                 Out = [i \in 1..Len(asWarm) |->
                          IF asWarm[i] = "Warm" THEN tone
                          ELSE IF asWarm[i] = "warmly" THEN "sincerely"
                          ELSE asWarm[i]]

C8_Witness ==
    /\ Returned
    /\ tone = UnknownTone
    /\ Len(BodyLines) = 5
    /\ BodyAdverb(BodyLines[5]) = "sincerely"

\* The lines the text is made of, in order: hook, topic, notes, header, one
\* descriptor per name, the numbered body lines, the END line.
EmittedLines ==
    LET N == NonBlankNames(character_names)
    IN  <<<<hook_get(hook_strength)>>, topic_line(title, genre, tone, platform)>>
        \o (IF prompts_extra # <<>> THEN <<notes_line(prompts_extra)>> ELSE <<>>)
        \o (IF N # <<>> THEN <<<<"Characters:">>>> ELSE <<>>)
        \o [k \in 1..Len(N) |-> N[k] \o <<": (short descriptor)">>]
        \o [k \in 1..approx_lines_of(length) |-> body_line(k - 1, twords_get(tone)[1])]
        \o (IF include_call_to_action THEN <<cta_line(platform)>> ELSE <<>>)

\* ls[i] seps[i] ls[i+1] seps[i+1] ... ls[n]
RECURSIVE Separated(_, _, _)
Separated(ls, seps, i) ==
    IF i = Len(ls) THEN ls[i] ELSE ls[i] \o seps[i] \o Separated(ls, seps, i + 1)

NewLines(n) == [i \in 1..n |-> "\n"]

(* C9, as claimed: every two consecutive lines of the text, the descriptor
   lines included, are separated by exactly one blank line. *)
C9_OneBlankLineEverywhere ==
    Returned =>
        LET E == EmittedLines
            seps == [i \in 1..(Len(E) - 1) |-> NewLines(2)]
        IN  Out = Separated(E, seps, 1)

(* C9, amended: consecutive lines are separated by exactly one blank line,
   except that a descriptor line is followed directly by the next descriptor
   line, with no blank line between them, and the last descriptor line is
   followed by two blank lines. *)
C9_BlankLineSeparators ==
    Returned =>
        LET E == EmittedLines
            seps == [i \in 1..(Len(E) - 1) |->
                       IF ~IsDescriptorLine(E[i]) THEN NewLines(2)
                       ELSE IF IsDescriptorLine(E[i + 1]) THEN NewLines(1)
                       ELSE NewLines(3)]
        IN  Out = Separated(E, seps, 1)

C9_Witness ==
    /\ Returned
    /\ Len(NonBlankNames(character_names)) = 2
    /\ prompts_extra = <<"n", "\n", "n">>
    /\ \E i \in 1..(Len(Out) - 4) :
         /\ Out[i] = ": (short descriptor)"
         /\ SubSeq(Out, i + 1, i + 3) = NewLines(3)
         /\ Out[i + 4] = "1"

-----------------------------------------------------------------------------
(* The app's use of the two generators *)

\* the remote attempt of this run produced a text that is not empty
Usable == response.kind = "content" /\ Trim(response.content) # <<>>

Fallback ==
    fallback_generate(title, genre, tone, platform, length, hook_strength,
                      character_names, prompts_extra, include_call_to_action)

(* C1: after a submission the text shown and offered for download is the
   remote service's text if and only if the remote attempt returned a
   non-empty text; otherwise (no API key, an exception, an empty text after
   stripping) the run still ends normally and the text is exactly the output
   of fallback_generate on the same inputs. *)
C1_DisplayedText ==
    /\ pc \in {"done", "gpt4_generate", "check", "display"}
    /\ (pc = "done" /\ submitted) =>
         /\ preview.tag = "str"
         /\ download = preview
         /\ Usable => preview.val = Trim(response.content)
         /\ ~Usable => preview.val = Fallback
         /\ (response.kind = "content" /\ preview.val = Trim(response.content))
               <=> Usable

C1_Witness ==
    /\ pc = "done"
    /\ submitted
    /\ api_key # <<>>
    /\ response = Content(<<" ", "\n">>)
    /\ add_characters
    /\ preview = Str(Fallback)

C10_Order ==
    /\ Count(calls, "gpt4_generate") <= 1
    /\ Count(calls, "ChatCompletion.create") <= 1
    /\ Count(calls, "fallback_generate") <= 1
    /\ \A i \in 1..Len(calls) :
         calls[i] = "fallback_generate" =>
            /\ \E j \in 1..(i - 1) : calls[j] = "gpt4_generate"
            /\ ~Usable
    /\ ~submitted => calls = <<>>

(* C10: within one submission the remote service is attempted at most once,
   fallback_generate is called at most once, only after the attempt and only
   when the attempt gave no usable text, and the submission always reaches the
   state where a text is displayed; without a submission neither is called. *)
C10_AttemptOnceThenDisplay ==
    /\ []C10_Order
    /\ (pc = "gpt4_generate") ~> (pc = "done" /\ submitted /\ preview.tag = "str")

C10_Witness ==
    /\ pc = "done"
    /\ submitted
    /\ calls = <<"gpt4_generate", "ChatCompletion.create", "fallback_generate">>
    /\ preview = result_text

====
